---- MODULE Spec2Model ----
(***************************************************************************)
(* The replicated log of go-raft (log.go): the in-memory entry window, the *)
(* result cache, the commit index, the compaction baseline, the backing    *)
(* file and the calls made to the apply callback.                          *)
(***************************************************************************)
EXTENDS Integers, Sequences, FiniteSets, TLC

\* ------------------------------------------------------------------ bounds
MaxIndex == 2
MaxTerm == 2
MaxCommand == 1
MaxLen == 2
MaxResults == 2
MaxDisk == 2
MaxApplied == 2
MaxBatch == 2
MaxThreads == 2

Indices == 0..MaxIndex
Terms == 1..MaxTerm
Commands == 1..MaxCommand
Threads == 1..MaxThreads

\* ------------------------------------------------------------------ values
\* A *LogEntry; NilEntry stands for the nil pointer.
NilEntry == [Index |-> 0, Term |-> 0, Command |-> 0]
newLogEntry(index, term, command) == [Index |-> index, Term |-> term, Command |-> command]
EntryValues == {newLogEntry(i, t, c) : i \in 1..MaxIndex, t \in 1..MaxTerm, c \in Commands}

\* A *logResult slot; present = FALSE is the nil pointer, returnValue 0 and
\* err 0 are nil values.
NilResult == [present |-> FALSE, returnValue |-> 0, err |-> 0]

\* The injected state machine: a deterministic function of the command.  Even
\* commands fail with an error, odd ones succeed.
ApplyFunc(command) ==
    [present |-> TRUE, returnValue |-> command, err |-> IF command % 2 = 0 THEN 1 ELSE 0]

NilFile == "nil"
OpenFile == "open"
NoPath == ""
ThePath == "log"

OK == "nil"
Error == "error"
Panic == "panic"

\* ------------------------------------------------------------------ entry encoding
\* One record per entry: a checksum followed by the index, the term and the
\* command.
RecLen == 4
Checksum(index, term, command) == ((index + 2 * term + 3 * command) % 5) + 1
Encode(e) == <<Checksum(e.Index, e.Term, e.Command), e.Index, e.Term, e.Command>>

RECURSIVE EncodeAll(_)
EncodeAll(es) == IF es = <<>> THEN <<>> ELSE Encode(Head(es)) \o EncodeAll(Tail(es))

\* decode: the entry at the head of the byte stream and the bytes consumed, or
\* a failure on a short or damaged record.
Decode(bytes) ==
    IF Len(bytes) < RecLen
    THEN [ok |-> FALSE, entry |-> NilEntry, n |-> 0]
    ELSE IF bytes[1] # Checksum(bytes[2], bytes[3], bytes[4])
         THEN [ok |-> FALSE, entry |-> NilEntry, n |-> 0]
         ELSE [ok |-> TRUE, entry |-> newLogEntry(bytes[2], bytes[3], bytes[4]), n |-> RecLen]

\* ------------------------------------------------------------------ state
VARIABLES
    entries,      \* l.entries
    results,      \* l.results
    commitIndex,  \* l.commitIndex
    startIndex,   \* l.startIndex
    startTerm,    \* l.startTerm
    file,         \* l.file: NilFile or OpenFile
    path,         \* l.path
    disk,         \* the bytes of the file at ThePath
    applied,      \* the Index of each entry handed to ApplyFunc since the log was last opened
    last,         \* the last call: operation, arguments and outcome
    mutex,        \* l.mutex: the thread holding the exclusive lock (0 for none) and the threads holding the shared lock
    pc,           \* where each thread is inside the Log operation it runs
    local         \* the local variables of the operation each thread runs

vars == <<entries, results, commitIndex, startIndex, startTerm, file, path, disk, applied, last,
          mutex, pc, local>>

\* The state of the threads.  A Log used by one thread at a time runs every
\* operation from Lock to Unlock in one step and leaves these as they are.
threadVars == <<mutex, pc, local>>

Unlocked == [writer |-> 0, readers |-> {}]
Idle == "idle"
NoLocal == [entry |-> [Index |-> 0, Term |-> 0, Command |-> 0], clear |-> FALSE, index |-> 0]

ThreadsIdle ==
    /\ mutex = Unlocked
    /\ pc = [t \in Threads |-> Idle]
    /\ local = [t \in Threads |-> NoLocal]

\* index is the index argument of the call; n is the number of entries an
\* appendEntries call appended, or the number of bytes open cut from the file.
Call(op, index, n, err) ==
    [op |-> op, index |-> index, n |-> n, err |-> err]

\* A panic ends the process: nothing but a restart follows it.
Running == last.err # Panic

\* newLog(): an empty log that has no file yet.
Init ==
    /\ entries = <<>>
    /\ results = <<>>
    /\ commitIndex = 0
    /\ startIndex = 0
    /\ startTerm = 0
    /\ file = NilFile
    /\ path = NoPath
    /\ disk = <<>>
    /\ applied = <<>>
    /\ last = Call("newLog", 0, 0, OK)
    /\ ThreadsIdle

\* A new process constructs a new Log; the file stays on disk.
NewLog ==
    /\ entries' = <<>>
    /\ results' = <<>>
    /\ commitIndex' = 0
    /\ startIndex' = 0
    /\ startTerm' = 0
    /\ file' = NilFile
    /\ path' = NoPath
    /\ applied' = <<>>
    /\ last' = Call("newLog", 0, 0, OK)
    /\ UNCHANGED disk
    /\ UNCHANGED threadVars

\* ------------------------------------------------------------------ accessors
internalCurrentIndex ==
    IF Len(entries) = 0 THEN startIndex ELSE entries[Len(entries)].Index

currentIndex == internalCurrentIndex
nextIndex == currentIndex + 1
currentTerm == IF Len(entries) = 0 THEN startTerm ELSE entries[Len(entries)].Term
isEmpty == Len(entries) = 0 /\ startIndex = 0

\* createEntry: a new entry stamped with nextIndex(); it is not appended.
createEntry(term, command) == newLogEntry(nextIndex, term, command)

\* The part of a state that open, setCommitIndex and appendEntries thread
\* through their loops.
Mem(es, rs, ci, ds, ap, err) ==
    [entries |-> es, results |-> rs, commitIndex |-> ci, disk |-> ds, applied |-> ap, err |-> err]

\* ------------------------------------------------------------------ open / close
\* The decode loop of open: every record that decodes is appended to the
\* entries, becomes the commit index and is applied; the first one that does
\* not decode cuts the file back to the bytes read so far.
\* openLoop as it would be if a record that does not decode were left in the
\* file.
RECURSIVE openLoopKeepsTail(_, _, _)
openLoopKeepsTail(bytes, lastIndex, m) ==
    IF bytes = <<>>
    THEN m
    ELSE LET d == Decode(bytes) IN
         IF ~d.ok
         THEN m
         ELSE openLoopKeepsTail(SubSeq(bytes, d.n + 1, Len(bytes)), lastIndex + d.n,
                                [m EXCEPT !.entries = Append(m.entries, d.entry),
                                          !.commitIndex = d.entry.Index,
                                          !.results = Append(m.results, ApplyFunc(d.entry.Command)),
                                          !.applied = Append(m.applied, d.entry.Index)])

RECURSIVE openLoop(_, _, _)
openLoop(bytes, lastIndex, m) ==
    IF bytes = <<>>
    THEN m
    ELSE LET d == Decode(bytes) IN
         IF ~d.ok
         THEN [m EXCEPT !.disk = SubSeq(m.disk, 1, lastIndex)]
         ELSE openLoop(SubSeq(bytes, d.n + 1, Len(bytes)), lastIndex + d.n,
                       [m EXCEPT !.entries = Append(m.entries, d.entry),
                                 !.commitIndex = d.entry.Index,
                                 !.results = Append(m.results, ApplyFunc(d.entry.Command)),
                                 !.applied = Append(m.applied, d.entry.Index)])

Open ==
    /\ Running
    /\ LET m == openLoop(disk, 0, Mem(entries, results, commitIndex, disk, <<>>, OK)) IN
       /\ Len(m.entries) <= MaxLen
       /\ Len(m.results) <= MaxResults
       /\ Len(m.applied) <= MaxApplied
       /\ entries' = m.entries
       /\ results' = m.results
       /\ commitIndex' = m.commitIndex
       /\ disk' = m.disk
       /\ applied' = m.applied
    /\ file' = OpenFile
    /\ path' = ThePath
    /\ last' = Call("open", 0, Len(disk) - Len(disk'), OK)
    /\ UNCHANGED <<startIndex, startTerm>>
    /\ UNCHANGED threadVars

Close ==
    /\ Running
    /\ file' = NilFile
    /\ entries' = <<>>
    /\ results' = <<>>
    /\ last' = Call("close", 0, 0, OK)
    /\ UNCHANGED <<commitIndex, startIndex, startTerm, path, disk, applied>>
    /\ UNCHANGED threadVars

\* ------------------------------------------------------------------ append
\* appendEntryError as it would be if an entry of the same term were refused
\* only for a smaller index, not for an equal one.
appendEntryErrorEqualIndex(es, entry) ==
    \/ file = NilFile
    \/ /\ Len(es) > 0
       /\ LET lastEntry == es[Len(es)] IN
          \/ entry.Term < lastEntry.Term
          \/ entry.Term = lastEntry.Term /\ entry.Index < lastEntry.Index

\* appendEntry: the check against the last in-memory entry.
appendEntryError(es, entry) ==
    \/ file = NilFile
    \/ /\ Len(es) > 0
       /\ LET lastEntry == es[Len(es)] IN
          \/ entry.Term < lastEntry.Term
          \/ entry.Term = lastEntry.Term /\ entry.Index <= lastEntry.Index

\* appendEntries: each entry in turn, stopping at the first one refused.
RECURSIVE appendLoop(_, _)
appendLoop(batch, m) ==
    IF batch = <<>>
    THEN m
    ELSE IF appendEntryError(m.entries, Head(batch))
         THEN [m EXCEPT !.err = Error]
         ELSE appendLoop(Tail(batch),
                         [m EXCEPT !.entries = Append(m.entries, Head(batch)),
                                   !.results = Append(m.results, NilResult)])

Batches == UNION {[1..n -> EntryValues] : n \in 1..MaxBatch}

AppendEntries(batch) ==
    /\ Running
    /\ LET m == appendLoop(batch, Mem(entries, results, commitIndex, disk, applied, OK)) IN
       /\ Len(m.entries) <= MaxLen
       /\ Len(m.results) <= MaxResults
       /\ entries' = m.entries
       /\ results' = m.results
       /\ last' = Call("appendEntries", 0, Len(m.entries) - Len(entries), m.err)
    /\ UNCHANGED <<commitIndex, startIndex, startTerm, file, path, disk, applied>>
    /\ UNCHANGED threadVars

\* ------------------------------------------------------------------ commit
UpdateCommitIndex(index) ==
    /\ Running
    /\ commitIndex' = index
    /\ last' = Call("updateCommitIndex", index, 0, OK)
    /\ UNCHANGED <<entries, results, startIndex, startTerm, file, path, disk, applied>>
    /\ UNCHANGED threadVars

\* The loop of setCommitIndex from i to index.  The offset i - 1 - startIndex
\* is unsigned: below zero it wraps to a value beyond every slice and the
\* indexing panics.  Writing to a nil file fails, and failAt is the i at which
\* the write of the entry fails on an open file (0: no write fails); a write
\* that fails leaves the file as it was.
RECURSIVE commitLoop(_, _, _, _)
commitLoop(i, index, failAt, m) ==
    IF i > index
    THEN m
    ELSE IF i - 1 < startIndex
         THEN [m EXCEPT !.err = Panic]
         ELSE LET entryIndex == i - 1 - startIndex
                  entry == entries[entryIndex + 1]
              IN IF file = NilFile \/ i = failAt
                 THEN [m EXCEPT !.err = Error]
                 ELSE commitLoop(i + 1, index, failAt,
                                 [m EXCEPT !.disk = m.disk \o Encode(entry),
                                           !.commitIndex = entry.Index,
                                           !.applied = Append(m.applied, entry.Index),
                                           !.results[entryIndex + 1] = ApplyFunc(entry.Command)])

setCommitIndex(index, failAt) ==
    LET m == Mem(entries, results, commitIndex, disk, applied, OK) IN
    IF index > startIndex + Len(entries)
    THEN [m EXCEPT !.err = Error]
    ELSE IF index < commitIndex
         THEN m
         ELSE commitLoop(commitIndex + 1, index, failAt, m)

SetCommitIndex(index, failAt) ==
    /\ Running
    /\ LET m == setCommitIndex(index, failAt) IN
       /\ Len(m.disk) <= MaxDisk * RecLen
       /\ Len(m.applied) <= MaxApplied
       /\ results' = m.results
       /\ commitIndex' = m.commitIndex
       /\ disk' = m.disk
       /\ applied' = m.applied
       /\ last' = Call("setCommitIndex", index, 0, m.err)
    /\ UNCHANGED <<entries, startIndex, startTerm, file, path>>
    /\ UNCHANGED threadVars

\* ------------------------------------------------------------------ truncate
\* truncate as it would be if the term of the entry at index were not compared.
truncateAnyTerm(index, term) ==
    IF index < commitIndex
    THEN [entries |-> entries, err |-> Error]
    ELSE IF index > startIndex + Len(entries)
         THEN [entries |-> entries, err |-> Error]
         ELSE IF index = startIndex
              THEN [entries |-> <<>>, err |-> OK]
              ELSE IF index < startIndex
                   THEN [entries |-> entries, err |-> Panic]
                   ELSE IF index < startIndex + Len(entries)
                        THEN [entries |-> SubSeq(entries, 1, index - startIndex), err |-> OK]
                        ELSE [entries |-> entries, err |-> OK]

\* truncate: entries[index-startIndex-1] is the entry whose term is compared.
truncate(index, term) ==
    IF index < commitIndex
    THEN [entries |-> entries, err |-> Error]
    ELSE IF index > startIndex + Len(entries)
         THEN [entries |-> entries, err |-> Error]
         ELSE IF index = startIndex
              THEN [entries |-> <<>>, err |-> OK]
              ELSE IF index < startIndex
                   THEN [entries |-> entries, err |-> Panic]
                   ELSE LET entry == entries[index - startIndex] IN
                        IF Len(entries) > 0 /\ entry.Term # term
                        THEN [entries |-> entries, err |-> Error]
                        ELSE IF index < startIndex + Len(entries)
                             THEN [entries |-> SubSeq(entries, 1, index - startIndex), err |-> OK]
                             ELSE [entries |-> entries, err |-> OK]

Truncate(index, term) ==
    /\ Running
    /\ LET r == truncate(index, term) IN
       /\ entries' = r.entries
       /\ last' = Call("truncate", index, 0, r.err)
    /\ UNCHANGED <<results, commitIndex, startIndex, startTerm, file, path, disk, applied>>
    /\ UNCHANGED threadVars

\* ------------------------------------------------------------------ compact
\* The entries compact keeps.  The slice expression entries[index-startIndex:]
\* panics when its unsigned offset is beyond the length of the slice.
compactEntries(index) ==
    IF index >= internalCurrentIndex
    THEN [entries |-> <<>>, err |-> OK]
    ELSE IF index < startIndex \/ index - startIndex > Len(entries)
         THEN [entries |-> entries, err |-> Panic]
         ELSE [entries |-> SubSeq(entries, index - startIndex + 1, Len(entries)), err |-> OK]

\* compact: the kept entries are written to a new file that replaces the old
\* one.  Removing the old file fails on a log that never had a path.
Compact(index, term) ==
    /\ Running
    /\ LET r == compactEntries(index) IN
       IF r.err = Panic
       THEN /\ last' = Call("compact", index, 0, Panic)
            /\ UNCHANGED <<entries, startIndex, startTerm, file, disk>>
       ELSE IF path = NoPath
            THEN /\ last' = Call("compact", index, 0, Error)
                 /\ UNCHANGED <<entries, startIndex, startTerm, file, disk>>
            ELSE /\ disk' = EncodeAll(r.entries)
                 /\ file' = OpenFile
                 /\ entries' = r.entries
                 /\ startIndex' = index
                 /\ startTerm' = term
                 /\ last' = Call("compact", index, 0, OK)
    /\ UNCHANGED <<results, commitIndex, path, applied>>
    /\ UNCHANGED threadVars

\* ------------------------------------------------------------------ queries
\* getEntry: the bounds are checked against the window, the slice is indexed
\* with index-1.
getEntryIn(es, start, index) ==
    IF index <= start \/ index > start + Len(es)
    THEN [entry |-> NilEntry, err |-> OK]
    ELSE IF index - 1 >= Len(es)
         THEN [entry |-> NilEntry, err |-> Panic]
         ELSE [entry |-> es[index], err |-> OK]

getEntry(index) == getEntryIn(entries, startIndex, index)

\* getEntriesAfter: nothing (a nil slice and term 0) below the baseline, a
\* panic beyond the window, the whole window and startTerm at the baseline,
\* and otherwise the slice from offset index-startIndex with the term of the
\* entry at offset index-1-startIndex.
getEntriesAfter(index) ==
    IF index < startIndex
    THEN [isNil |-> TRUE, entries |-> <<>>, term |-> 0, err |-> OK]
    ELSE IF index > Len(entries) + startIndex
         THEN [isNil |-> TRUE, entries |-> <<>>, term |-> 0, err |-> Panic]
         ELSE IF index = startIndex
              THEN [isNil |-> FALSE, entries |-> entries, term |-> startTerm, err |-> OK]
              ELSE [isNil |-> FALSE,
                    entries |-> SubSeq(entries, index - startIndex + 1, Len(entries)),
                    term |-> entries[index - startIndex].Term,
                    err |-> OK]

\* commitInfo: zeros while nothing is committed, the baseline when the commit
\* index is the baseline, and otherwise the entry at the unsigned offset
\* commitIndex-1-startIndex, which panics outside the slice.
commitInfo ==
    IF commitIndex = 0
    THEN [index |-> 0, term |-> 0, err |-> OK]
    ELSE IF commitIndex = startIndex
         THEN [index |-> startIndex, term |-> startTerm, err |-> OK]
         ELSE IF commitIndex - 1 < startIndex \/ commitIndex - 1 - startIndex >= Len(entries)
              THEN [index |-> 0, term |-> 0, err |-> Panic]
              ELSE [index |-> entries[commitIndex - startIndex].Index,
                    term |-> entries[commitIndex - startIndex].Term,
                    err |-> OK]

\* lastInfo: the baseline of an empty window, else the last entry.
lastInfo ==
    IF Len(entries) = 0
    THEN [index |-> startIndex, term |-> startTerm]
    ELSE [index |-> entries[Len(entries)].Index, term |-> entries[Len(entries)].Term]

\* getEntryResult: the slot at entry.Index-1 of the results, if there is one.
getEntryResultIn(rs, entry) ==
    IF entry.Index > 0 /\ entry.Index <= Len(rs) /\ rs[entry.Index].present
    THEN rs[entry.Index]
    ELSE NilResult

getEntryResult(entry) == getEntryResultIn(results, entry)

\* getEntryResult with clear set drops the cached return value of the slot.
GetEntryResult(entry, clear) ==
    /\ Running
    /\ results' = IF clear /\ getEntryResult(entry).present
                  THEN [results EXCEPT ![entry.Index].returnValue = 0]
                  ELSE results
    /\ last' = Call("getEntryResult", entry.Index, 0, OK)
    /\ UNCHANGED <<entries, commitIndex, startIndex, startTerm, file, path, disk, applied>>
    /\ UNCHANGED threadVars

\* ------------------------------------------------------------------ crash
\* The process dies while setCommitIndex writes the next entry: a proper
\* prefix of its record reaches the file, and a new process starts.
TornWrite(k) ==
    /\ Running
    /\ file = OpenFile
    /\ commitIndex >= startIndex
    /\ commitIndex + 1 <= startIndex + Len(entries)
    /\ Len(disk) <= MaxDisk * RecLen
    /\ disk' = disk \o SubSeq(Encode(entries[commitIndex + 1 - startIndex]), 1, k)
    /\ entries' = <<>>
    /\ results' = <<>>
    /\ commitIndex' = 0
    /\ startIndex' = 0
    /\ startTerm' = 0
    /\ file' = NilFile
    /\ path' = NoPath
    /\ applied' = <<>>
    /\ last' = Call("newLog", 0, 0, OK)
    /\ UNCHANGED threadVars

\* ------------------------------------------------------------------ specification
Next ==
    \/ NewLog
    \/ Open
    \/ Close
    \/ \E batch \in Batches : AppendEntries(batch)
    \/ \E index \in Indices : UpdateCommitIndex(index)
    \/ \E index \in Indices, failAt \in Indices : SetCommitIndex(index, failAt)
    \/ \E index \in Indices, term \in Terms : Truncate(index, term)
    \/ \E index \in Indices, term \in Terms : Compact(index, term)
    \/ \E k \in 1..Len(entries), clear \in BOOLEAN : GetEntryResult(entries[k], clear)
    \/ \E k \in 1..(RecLen - 1) : TornWrite(k)

Spec == Init /\ [][Next]_vars

\* ------------------------------------------------------------------ recovery
\* The files a new Log may find: complete records followed by nothing, by a
\* record cut short, by a record with a damaged checksum, or by a damaged
\* record with a complete one behind it.
TornRecords == {SubSeq(Encode(e), 1, k) : e \in EntryValues, k \in 1..(RecLen - 1)}
DamagedRecords == {[Encode(e) EXCEPT ![1] = 0] : e \in EntryValues}
Garbage ==
    {<<>>} \cup TornRecords \cup DamagedRecords
           \cup {d \o Encode(newLogEntry(1, 1, 1)) : d \in DamagedRecords}
RecoverFiles ==
    {EncodeAll(es) \o g : es \in UNION {[1..n -> EntryValues] : n \in 0..MaxDisk}, g \in Garbage}

InitRecover ==
    /\ entries = <<>>
    /\ results = <<>>
    /\ commitIndex = 0
    /\ startIndex = 0
    /\ startTerm = 0
    /\ file = NilFile
    /\ path = NoPath
    /\ disk \in RecoverFiles
    /\ applied = <<>>
    /\ last = Call("newLog", 0, 0, OK)
    /\ ThreadsIdle

\* A new Log opens the file it finds, and may close and open it again.
NextRecover == Open \/ Close

SpecRecover == InitRecover /\ [][NextRecover]_vars

\* ------------------------------------------------------------------ threads
\* Several threads share one open Log.  A method that takes l.mutex is split
\* where another thread can run: at the Lock or RLock, and, for a method that
\* holds only the shared lock, at each access it makes to the Log.
LockFree == mutex.writer = 0 /\ mutex.readers = {}
RLockFree == mutex.writer = 0

RLock(t) == mutex' = [mutex EXCEPT !.readers = @ \cup {t}]
RUnlock(t) == mutex' = [mutex EXCEPT !.readers = @ \ {t}]
Lock(t) == mutex' = [mutex EXCEPT !.writer = t]
Unlock(t) == mutex' = [mutex EXCEPT !.writer = 0]

\* createEntry -> nextIndex -> currentIndex: the shared lock is taken.
CurrentIndexRLock(t) ==
    /\ Running
    /\ pc[t] = Idle
    /\ RLockFree
    /\ RLock(t)
    /\ pc' = [pc EXCEPT ![t] = "currentIndex"]
    /\ UNCHANGED <<entries, results, commitIndex, startIndex, startTerm, file, path, disk,
                   applied, last, local>>

\* currentIndex reads the last index and releases the lock; createEntry
\* stamps the new entry with that index plus one.
CreateEntry(t, term, command) ==
    /\ Running
    /\ pc[t] = "currentIndex"
    /\ nextIndex <= MaxIndex
    /\ RUnlock(t)
    /\ local' = [local EXCEPT ![t].entry = createEntry(term, command)]
    /\ pc' = [pc EXCEPT ![t] = "created"]
    /\ UNCHANGED <<entries, results, commitIndex, startIndex, startTerm, file, path, disk,
                   applied, last>>

\* appendEntries of the created entry: the exclusive lock is taken.
AppendEntriesLock(t) ==
    /\ Running
    /\ pc[t] = "created"
    /\ LockFree
    /\ Lock(t)
    /\ pc' = [pc EXCEPT ![t] = "appendEntries"]
    /\ UNCHANGED <<entries, results, commitIndex, startIndex, startTerm, file, path, disk,
                   applied, last, local>>

\* The body of appendEntries and the deferred Unlock.
AppendEntriesUnlock(t) ==
    /\ Running
    /\ pc[t] = "appendEntries"
    /\ LET m == appendLoop(<<local[t].entry>>, Mem(entries, results, commitIndex, disk, applied, OK)) IN
       /\ Len(m.entries) <= MaxLen
       /\ Len(m.results) <= MaxResults
       /\ entries' = m.entries
       /\ results' = m.results
       /\ last' = Call("appendEntries", 0, Len(m.entries) - Len(entries), m.err)
    /\ Unlock(t)
    /\ pc' = [pc EXCEPT ![t] = Idle]
    /\ local' = [local EXCEPT ![t] = NoLocal]
    /\ UNCHANGED <<commitIndex, startIndex, startTerm, file, path, disk, applied>>

\* setCommitIndex: the exclusive lock is taken.
SetCommitIndexLock(t, index) ==
    /\ Running
    /\ pc[t] = Idle
    /\ LockFree
    /\ Lock(t)
    /\ local' = [local EXCEPT ![t].index = index]
    /\ pc' = [pc EXCEPT ![t] = "setCommitIndex"]
    /\ UNCHANGED <<entries, results, commitIndex, startIndex, startTerm, file, path, disk,
                   applied, last>>

\* The body of setCommitIndex and the deferred Unlock.
SetCommitIndexUnlock(t) ==
    /\ Running
    /\ pc[t] = "setCommitIndex"
    /\ LET m == setCommitIndex(local[t].index, 0) IN
       /\ Len(m.disk) <= MaxDisk * RecLen
       /\ Len(m.applied) <= MaxApplied
       /\ results' = m.results
       /\ commitIndex' = m.commitIndex
       /\ disk' = m.disk
       /\ applied' = m.applied
       /\ last' = Call("setCommitIndex", local[t].index, 0, m.err)
    /\ Unlock(t)
    /\ pc' = [pc EXCEPT ![t] = Idle]
    /\ local' = [local EXCEPT ![t] = NoLocal]
    /\ UNCHANGED <<entries, startIndex, startTerm, file, path>>

\* getEntryResult(entry, clear): the shared lock is taken.
GetEntryResultRLock(t, entry, clear) ==
    /\ Running
    /\ pc[t] = Idle
    /\ RLockFree
    /\ RLock(t)
    /\ local' = [local EXCEPT ![t].entry = entry, ![t].clear = clear]
    /\ pc' = [pc EXCEPT ![t] = "getEntryResult"]
    /\ UNCHANGED <<entries, results, commitIndex, startIndex, startTerm, file, path, disk,
                   applied, last>>

\* The result slot is looked up and its returnValue and err are read.
GetEntryResultRead(t) ==
    /\ Running
    /\ pc[t] = "getEntryResult"
    /\ pc' = [pc EXCEPT ![t] = IF local[t].clear /\ getEntryResult(local[t].entry).present
                               THEN "clearResult"
                               ELSE "getEntryResultReturn"]
    /\ UNCHANGED <<entries, results, commitIndex, startIndex, startTerm, file, path, disk,
                   applied, last, mutex, local>>

\* result.returnValue = nil, under the shared lock.
GetEntryResultClear(t) ==
    /\ Running
    /\ pc[t] = "clearResult"
    /\ results' = [results EXCEPT ![local[t].entry.Index].returnValue = 0]
    /\ pc' = [pc EXCEPT ![t] = "getEntryResultReturn"]
    /\ UNCHANGED <<entries, commitIndex, startIndex, startTerm, file, path, disk,
                   applied, last, mutex, local>>

\* The deferred RUnlock of getEntryResult.
GetEntryResultRUnlock(t) ==
    /\ Running
    /\ pc[t] = "getEntryResultReturn"
    /\ RUnlock(t)
    /\ last' = Call("getEntryResult", local[t].entry.Index, 0, OK)
    /\ pc' = [pc EXCEPT ![t] = Idle]
    /\ local' = [local EXCEPT ![t] = NoLocal]
    /\ UNCHANGED <<entries, results, commitIndex, startIndex, startTerm, file, path, disk, applied>>

\* A Log that was constructed and opened on a path without a file.
InitThreads ==
    /\ entries = <<>>
    /\ results = <<>>
    /\ commitIndex = 0
    /\ startIndex = 0
    /\ startTerm = 0
    /\ file = OpenFile
    /\ path = ThePath
    /\ disk = <<>>
    /\ applied = <<>>
    /\ last = Call("open", 0, 0, OK)
    /\ ThreadsIdle

NextThreads ==
    \/ \E t \in Threads : CurrentIndexRLock(t)
    \/ \E t \in Threads, term \in Terms, command \in Commands : CreateEntry(t, term, command)
    \/ \E t \in Threads : AppendEntriesLock(t)
    \/ \E t \in Threads : AppendEntriesUnlock(t)
    \/ \E t \in Threads, index \in Indices : SetCommitIndexLock(t, index)
    \/ \E t \in Threads : SetCommitIndexUnlock(t)
    \/ \E t \in Threads, k \in 1..Len(entries), clear \in BOOLEAN :
          GetEntryResultRLock(t, entries[k], clear)
    \/ \E t \in Threads : GetEntryResultRead(t)
    \/ \E t \in Threads : GetEntryResultClear(t)
    \/ \E t \in Threads : GetEntryResultRUnlock(t)

SpecThreads == InitThreads /\ [][NextThreads]_vars

\* ------------------------------------------------------------------ properties
\* The entries carry the indices createEntry gives them: the k-th entry of
\* the window has Index startIndex + k.
Contiguous == \A k \in 1..Len(entries) : entries[k].Index = startIndex + k

\* The calls a step made to ApplyFunc.
NewApplied == SubSeq(applied', Len(applied) + 1, Len(applied'))

SessionOps == {"appendEntries", "setCommitIndex", "updateCommitIndex", "truncate", "compact"}

\* C1: within one open session every appendEntries, setCommitIndex,
\* updateCommitIndex, truncate or compact call applies only indices that it
\* commits, in ascending order without gaps, applies each in-memory entry
\* index that it commits exactly once, and applies no index that was applied
\* before in the session.
C1_ApplyOncePerCommittedIndex ==
    [][(file = OpenFile /\ last'.op \in SessionOps) =>
          /\ \A k \in 1..Len(NewApplied) :
                commitIndex < NewApplied[k] /\ NewApplied[k] <= commitIndex'
          /\ \A k \in 1..(Len(NewApplied) - 1) : NewApplied[k + 1] = NewApplied[k] + 1
          /\ \A j \in (commitIndex + 1)..commitIndex' :
                (startIndex < j /\ j <= startIndex + Len(entries))
                    => Cardinality({k \in 1..Len(NewApplied) : NewApplied[k] = j}) = 1
          /\ \A k \in 1..Len(NewApplied) : \A j \in 1..Len(applied) : applied[j] # NewApplied[k]]_vars

\* C2: after setCommitIndex(i) returns no error with i at or above the old
\* commit index, on a log whose entries carry contiguous indices, every
\* entry with an index j in (old commitIndex, i] has its own apply result in
\* getEntryResult, and the call applied exactly the indices old
\* commitIndex+1 .. i in ascending order.
C2_CommittedEntriesHaveResults ==
    [][(last'.op = "setCommitIndex" /\ last'.err = OK /\ last'.index >= commitIndex /\ Contiguous) =>
          /\ NewApplied = [k \in 1..(last'.index - commitIndex) |-> commitIndex + k]
          /\ \A k \in 1..Len(entries) :
                (commitIndex < entries[k].Index /\ entries[k].Index <= last'.index)
                    => getEntryResultIn(results', entries[k]) = ApplyFunc(entries[k].Command)]_vars

\* C3: no operation on a Log leaves the commit index smaller than it found it.
C3_CommitIndexNeverDecreases ==
    [][last'.op # "newLog" => commitIndex' >= commitIndex]_vars

\* The in-memory entries with an index in (startIndex, commitIndex], in order.
CommittedEntries == SelectSeq(entries, LAMBDA e : startIndex < e.Index /\ e.Index <= commitIndex)
FileHoldsCommitted == disk = EncodeAll(CommittedEntries)

\* C4: appendEntries, setCommitIndex, truncate and compact keep the file of an
\* open log equal to the encodings of the in-memory entries with an index in
\* (startIndex, commitIndex], each once and in ascending order.
C4_FileHoldsExactlyCommitted ==
    [][(file = OpenFile /\ FileHoldsCommitted /\ last'.err # Panic
        /\ last'.op \in {"appendEntries", "setCommitIndex", "truncate", "compact"})
          => FileHoldsCommitted']_vars

LogState == <<entries, results, commitIndex, startIndex, startTerm>>

\* C5: truncate(index, term) with index below the commit index returns an
\* error and leaves entries, results, commitIndex, startIndex and startTerm
\* unchanged, and no truncate call removes an in-memory entry whose Index is
\* at or below the commit index.
C5_TruncateKeepsCommitted ==
    [][\A index \in Indices, term \in Terms :
          Truncate(index, term) =>
             /\ index < commitIndex => (last'.err = Error /\ UNCHANGED LogState)
             /\ \A k \in 1..Len(entries) :
                   entries[k].Index <= commitIndex
                       => (k <= Len(entries') /\ entries'[k] = entries[k])]_vars

\* C6: after compact(index, term) succeeds on an open log whose entries carry
\* contiguous indices, getEntry(j) finds nothing for every j at or below the
\* new startIndex and returns the unchanged entry for every j above it that
\* was in memory before.
C6_CompactKeepsLaterEntries ==
    [][(last'.op = "compact" /\ last'.err = OK /\ file = OpenFile /\ Contiguous) =>
          /\ \A j \in Indices :
                j <= startIndex' => getEntryIn(entries', startIndex', j) = [entry |-> NilEntry, err |-> OK]
          /\ \A k \in 1..Len(entries) :
                entries[k].Index > startIndex'
                    => getEntryIn(entries', startIndex', entries[k].Index) = [entry |-> entries[k], err |-> OK]]_vars

\* C7: startIndex <= commitIndex <= startIndex + len(entries) in every state.
C7_CommitIndexInWindow ==
    startIndex <= commitIndex /\ commitIndex <= startIndex + Len(entries)

\* A Log as newLog() returns it.
Fresh ==
    /\ entries = <<>>
    /\ results = <<>>
    /\ commitIndex = 0
    /\ startIndex = 0
    /\ startTerm = 0
    /\ file = NilFile
    /\ path = NoPath

\* C8: open on a freshly constructed Log, given a file of N complete records
\* followed by bytes that do not decode, returns no error, holds exactly the
\* N entries in file order, has applied each once in that order, has the
\* Index of the N-th as commit index and has cut the file to the N records.
C8_OpenRecoversValidPrefix ==
    [][(Fresh /\ last'.op = "open") =>
          /\ last'.err = OK
          /\ disk' = EncodeAll(entries')
          /\ disk' = SubSeq(disk, 1, Len(disk'))
          /\ LET rest == SubSeq(disk, Len(disk') + 1, Len(disk)) IN
             rest = <<>> \/ ~Decode(rest).ok
          /\ applied' = [k \in 1..Len(entries') |-> entries'[k].Index]
          /\ commitIndex' = (IF entries' = <<>> THEN 0 ELSE entries'[Len(entries')].Index)]_vars

\* C8 happens: open has read at least one complete entry and cut trailing
\* bytes from the file.
C8_Witness ==
    /\ last.op = "open"
    /\ last.n > 0
    /\ Len(entries) = MaxDisk
    /\ applied = [k \in 1..Len(entries) |-> entries[k].Index]
    /\ disk = EncodeAll(entries)

\* The append check refuses entry after lastEntry.
Refused(entry, lastEntry) ==
    \/ entry.Term < lastEntry.Term
    \/ entry.Term = lastEntry.Term /\ entry.Index <= lastEntry.Index

\* C9: on an open log with at least one in-memory entry, an appendEntries
\* call whose first entry has a term below the last entry's term, or the same
\* term and an index at or below the last entry's index, returns an error and
\* leaves entries, results, commitIndex, startIndex and startTerm unchanged.
C9_RefusedAppendChangesNothing ==
    [][(last'.op = "appendEntries" /\ file = OpenFile /\ Len(entries) > 0) =>
          \A batch \in Batches :
             (Refused(batch[1], entries[Len(entries)]) /\ AppendEntries(batch))
                => (last'.err = Error /\ UNCHANGED LogState)]_vars

\* C9 happens: an open log with an entry in memory has refused the first
\* entry of an appendEntries call.
C9_Witness ==
    /\ last.op = "appendEntries"
    /\ last.err = Error
    /\ last.n = 0
    /\ file = OpenFile
    /\ Len(entries) > 0

\* C10: the in-memory entries are strictly increasing by Index and
\* non-decreasing by Term from first to last.
C10_EntriesOrdered ==
    \A k \in 1..(Len(entries) - 1) :
        entries[k].Index < entries[k + 1].Index /\ entries[k].Term <= entries[k + 1].Term

\* C11: on an open log whose entries carry contiguous indices, after an entry
\* built by createEntry is appended with appendEntries without an error,
\* currentIndex() is the index of that entry and getEntry(e.Index) returns e
\* for every entry e in memory.
C11_AppendedEntriesRetrievable ==
    [][(last'.op = "appendEntries" /\ file = OpenFile /\ Contiguous /\ nextIndex <= MaxIndex) =>
          \A term \in Terms, command \in Commands :
             (AppendEntries(<<createEntry(term, command)>>) /\ last'.err = OK) =>
                /\ entries' # <<>>
                /\ entries'[Len(entries')].Index = createEntry(term, command).Index
                /\ \A k \in 1..Len(entries') :
                      getEntryIn(entries', startIndex', entries'[k].Index)
                          = [entry |-> entries'[k], err |-> OK]]_vars

\* C12: setCommitIndex(i) with i below the commit index returns no error,
\* applies nothing, writes nothing to the file and leaves commitIndex,
\* results and entries unchanged.
C12_CommitBelowCommitIndexIsNoOp ==
    [][(last'.op = "setCommitIndex" /\ last'.index < commitIndex) =>
          /\ last'.err = OK
          /\ UNCHANGED <<commitIndex, results, entries, disk, applied>>]_vars

\* C13: truncate(index, term) returns an error and leaves the in-memory
\* entries unchanged whenever commitIndex <= index, startIndex < index <=
\* startIndex + len(entries) and the entry at index in the window has a term
\* different from term.
C13_TruncateTermMismatchRefused ==
    [][last'.op = "truncate" =>
          \A index \in Indices, term \in Terms :
             (/\ commitIndex <= index
              /\ startIndex < index
              /\ index <= startIndex + Len(entries)
              /\ entries[index - startIndex].Term # term
              /\ Truncate(index, term))
                => (last'.err = Error /\ entries' = entries)]_vars

\* C13 happens: a truncate at an index inside the window and not below the
\* commit index was refused, which only a term mismatch does, and the entry
\* at that index and every later one are still in memory.
C13_Witness ==
    /\ last.op = "truncate"
    /\ last.err = Error
    /\ commitIndex <= last.index
    /\ startIndex < last.index
    /\ last.index < startIndex + Len(entries)

\* Every in-memory entry has an Index inside the window.
IndicesInWindow ==
    \A k \in 1..Len(entries) :
        startIndex < entries[k].Index /\ entries[k].Index <= startIndex + Len(entries)

\* C14: on an open log whose entries have indices inside the window,
\* getEntriesAfter(index) returns nil and 0 when index < startIndex, all
\* in-memory entries with startTerm when index = startIndex, and when
\* startIndex < index <= startIndex + len(entries) exactly the in-memory
\* entries with Index > index together with the term of the entry whose Index
\* equals index.
C14_GetEntriesAfter ==
    (file = OpenFile /\ IndicesInWindow) =>
        \A index \in Indices :
            LET r == getEntriesAfter(index) IN
            /\ index < startIndex => (r.isNil /\ r.term = 0 /\ r.err = OK)
            /\ index = startIndex =>
                  (~r.isNil /\ r.entries = entries /\ r.term = startTerm /\ r.err = OK)
            /\ (startIndex < index /\ index <= startIndex + Len(entries)) =>
                  /\ r.err = OK
                  /\ r.entries = SelectSeq(entries, LAMBDA e : e.Index > index)
                  /\ \E k \in 1..Len(entries) :
                        entries[k].Index = index /\ r.term = entries[k].Term

\* getEntryResult finds a result for exactly the in-memory entries at or
\* below the commit index.
ResultsMatchCommit ==
    \A k \in 1..Len(entries) :
        getEntryResult(entries[k]).present <=> entries[k].Index <= commitIndex

\* C16: appendEntries, setCommitIndex, truncate and compact on an open log
\* whose entries carry contiguous indices and whose commit index is inside
\* the window keep this: an in-memory entry has a result present in
\* getEntryResult if and only if its Index is at or below the commit index.
C16_ResultPresentIffCommitted ==
    [][(/\ file = OpenFile
        /\ Contiguous
        /\ C7_CommitIndexInWindow
        /\ ResultsMatchCommit
        /\ last'.op \in {"appendEntries", "setCommitIndex", "truncate", "compact"}
        /\ last'.err # Panic
        /\ Contiguous')
          => ResultsMatchCommit']_vars

\* What open leaves in a freshly constructed Log that reads the file ds.
openFresh(ds) == openLoop(ds, 0, Mem(<<>>, <<>>, 0, ds, <<>>, OK))

\* C17: directly after close of an open log whose commit index is inside the
\* window the log is empty (isEmpty, and currentIndex, currentTerm and
\* CommitIndex are those of an empty log), and an open that follows a close
\* that left the commit index at the baseline yields the entries, results,
\* commitIndex, startIndex and startTerm that open yields on a new Log
\* reading that file.
C17_ReusableAfterClose ==
    [][/\ (last'.op = "close" /\ file = OpenFile /\ C7_CommitIndexInWindow) =>
             /\ Len(entries') = 0 /\ startIndex' = 0
             /\ startTerm' = 0
             /\ commitIndex' = 0
       /\ (last.op = "close" /\ last'.op = "open" /\ commitIndex = startIndex) =>
             /\ entries' = openFresh(disk).entries
             /\ results' = openFresh(disk).results
             /\ commitIndex' = openFresh(disk).commitIndex
             /\ startIndex' = 0
             /\ startTerm' = 0]_vars

\* C18: when, during setCommitIndex(i) on a log whose entries have indices
\* inside the window, the write of the entry at index j (old commitIndex < j
\* <= i) fails, the call returns the error with commitIndex = j-1, has
\* applied exactly the indices old commitIndex+1 .. j-1 in order, and has
\* recorded no result in the slot of j or a later one.
C18_WriteFailureStopsCommit ==
    [][(last'.op = "setCommitIndex" /\ last'.err = Error /\ IndicesInWindow) =>
          \A index \in Indices, failAt \in Indices :
             LET j == IF file = NilFile THEN commitIndex + 1 ELSE failAt IN
             (/\ commitIndex < j
              /\ j <= index
              /\ index <= startIndex + Len(entries)
              /\ SetCommitIndex(index, failAt))
                => /\ commitIndex' = j - 1
                   /\ NewApplied = [k \in 1..(j - 1 - commitIndex) |-> commitIndex + k]
                   /\ \A p \in 1..Len(results) :
                         p >= j - startIndex => results'[p] = results[p]]_vars

\* C19: in every reachable state commitInfo() returns without reading outside
\* the window: (0,0) when commitIndex = 0, (startIndex, startTerm) when
\* commitIndex = startIndex, and otherwise the index and term of an in-memory
\* entry whose Index is commitIndex.
C19_CommitInfoInsideWindow ==
    /\ commitInfo.err = OK
    /\ commitIndex = 0 => (commitInfo.index = 0 /\ commitInfo.term = 0)
    /\ (commitIndex # 0 /\ commitIndex = startIndex) =>
          (commitInfo.index = startIndex /\ commitInfo.term = startTerm)
    /\ (commitIndex # 0 /\ commitIndex # startIndex) =>
          \E k \in 1..Len(entries) :
              /\ entries[k].Index = commitIndex
              /\ commitInfo.index = commitIndex
              /\ commitInfo.term = entries[k].Term

\* The places where a thread holds l.mutex, reads a result slot, or writes one.
WritesResult(t) == pc[t] = "clearResult"
ReadsResult(t) == pc[t] \in {"getEntryResult", "clearResult"}

\* C15: no two threads are at an access to the same result slot with one of
\* them writing it; a thread that writes Log state holds the exclusive lock.
C15_NoConcurrentWrite ==
    \A t1 \in Threads, t2 \in Threads :
        (t1 # t2 /\ WritesResult(t1) /\ ReadsResult(t2))
            => local[t1].entry.Index # local[t2].entry.Index

\* C20: with threads that each run createEntry and then appendEntries of the
\* created entry, the k-th in-memory entry has Index startIndex + k in every
\* reachable state.
C20_ConcurrentAppendsContiguous == Contiguous

====
